---- MODULE Spec2Model ----
(***************************************************************************)
(* Model of BotBase (src/src/bots/base.py) and of the example EchoBot      *)
(* (src/examples/echo_bot.py): construction, the JSON state blob and the   *)
(* status hash kept in the key-value store, and the control flow of run(). *)
(*                                                                         *)
(* Texts (store keys, JSON payloads) are sequences of one-character        *)
(* strings.  Python values are tagged records:                             *)
(*   [t |-> "null"]  [t |-> "bool", b]  [t |-> "int", i]  [t |-> "str", s] *)
(*   [t |-> "list", items]   [t |-> "dict", map]   [t |-> "set", elems]    *)
(* where map is a function from key texts to values and "set" is a Python  *)
(* set, which json.dumps cannot serialize.                                 *)
(***************************************************************************)
EXTENDS Integers, Sequences, FiniteSets, TLC

QUOTE  == "\""
BSLASH == "\\"

PyNone       == [t |-> "null"]
PyBool(b)    == [t |-> "bool", b |-> b]
PyInt(i)     == [t |-> "int", i |-> i]
PyStr(s)     == [t |-> "str", s |-> s]
PyList(xs)   == [t |-> "list", items |-> xs]
PyDict(m)    == [t |-> "dict", map |-> m]
PySetOf(S)   == [t |-> "set", elems |-> S]
EmptyMap     == <<>>
EmptyDict    == PyDict(EmptyMap)

(***************************************************************************)
(* json.dumps(obj) with the default separators (", " and ": ").            *)
(***************************************************************************)
DigitChar == <<"0", "1", "2", "3", "4", "5", "6", "7", "8", "9">>

RECURSIVE Digits(_)
Digits(n) ==
    IF n < 10 THEN <<DigitChar[n + 1]>>
    ELSE Digits(n \div 10) \o <<DigitChar[(n % 10) + 1]>>

IntText(i) == IF i < 0 THEN <<"-">> \o Digits(0 - i) ELSE Digits(i)

RECURSIVE Escape(_)
Escape(s) ==
    IF s = <<>> THEN <<>>
    ELSE (IF Head(s) \in {QUOTE, BSLASH} THEN <<BSLASH, Head(s)>> ELSE <<Head(s)>>)
         \o Escape(Tail(s))

StrText(s) == <<QUOTE>> \o Escape(s) \o <<QUOTE>>

\* The keys of a dict in the order dumps walks them.
RECURSIVE KeySeq(_)
KeySeq(S) ==
    IF S = {} THEN <<>>
    ELSE LET k == CHOOSE x \in S : TRUE IN <<k>> \o KeySeq(S \ {k})

RECURSIVE Serializable(_)
Serializable(v) ==
    CASE v.t = "list" -> \A n \in 1..Len(v.items) : Serializable(v.items[n])
      [] v.t = "dict" -> \A k \in DOMAIN v.map : Serializable(v.map[k])
      [] v.t = "set"  -> FALSE
      [] OTHER        -> TRUE

RECURSIVE DumpsText(_)
RECURSIVE JoinItems(_)
RECURSIVE JoinMembers(_, _)
JoinItems(xs) ==
    IF xs = <<>> THEN <<>>
    ELSE DumpsText(Head(xs))
         \o (IF Tail(xs) = <<>> THEN <<>> ELSE <<",", " ">> \o JoinItems(Tail(xs)))

JoinMembers(m, ks) ==
    IF ks = <<>> THEN <<>>
    ELSE StrText(Head(ks)) \o <<":", " ">> \o DumpsText(m[Head(ks)])
         \o (IF Tail(ks) = <<>> THEN <<>> ELSE <<",", " ">> \o JoinMembers(m, Tail(ks)))

DumpsText(v) ==
    CASE v.t = "null" -> <<"n", "u", "l", "l">>
      [] v.t = "bool" -> IF v.b THEN <<"t", "r", "u", "e">> ELSE <<"f", "a", "l", "s", "e">>
      [] v.t = "int"  -> IntText(v.i)
      [] v.t = "str"  -> StrText(v.s)
      [] v.t = "list" -> <<"[">> \o JoinItems(v.items) \o <<"]">>
      [] v.t = "dict" -> <<"{">> \o JoinMembers(v.map, KeySeq(DOMAIN v.map)) \o <<"}">>

\* json.dumps: a TypeError for a value it cannot serialize, else the text.
Dumps(v) ==
    IF Serializable(v) THEN [ok |-> TRUE, text |-> DumpsText(v)]
    ELSE [ok |-> FALSE, text |-> <<>>]

(***************************************************************************)
(* json.loads(text): a recursive-descent reading of the JSON grammar over  *)
(* null, true, false, integers, strings with the escapes \" and \\, arrays *)
(* and objects.  A parse result is [ok, v, next]: next is the index of the *)
(* first character not consumed.                                           *)
(***************************************************************************)
ParseFail == [ok |-> FALSE, v |-> PyNone, next |-> 0]
ParseOk(v, n) == [ok |-> TRUE, v |-> v, next |-> n]

RECURSIVE SkipWs(_, _)
SkipWs(txt, i) == IF i <= Len(txt) /\ txt[i] = " " THEN SkipWs(txt, i + 1) ELSE i

HasAt(txt, i, lit) ==
    /\ i + Len(lit) - 1 <= Len(txt)
    /\ \A n \in 1..Len(lit) : txt[i + n - 1] = lit[n]

DigitVal(c) == CHOOSE d \in 0..9 : DigitChar[d + 1] = c
IsDigit(txt, i) == i <= Len(txt) /\ \E d \in 1..10 : DigitChar[d] = txt[i]

RECURSIVE ParseDigits(_, _, _)
ParseDigits(txt, i, acc) ==
    IF IsDigit(txt, i) THEN ParseDigits(txt, i + 1, acc * 10 + DigitVal(txt[i]))
    ELSE [v |-> acc, next |-> i]

\* -?(0|[1-9][0-9]*)
ParseInt(txt, i) ==
    LET neg == i <= Len(txt) /\ txt[i] = "-"
        j   == IF neg THEN i + 1 ELSE i
    IN  IF ~IsDigit(txt, j) THEN ParseFail
        ELSE LET r == IF txt[j] = "0" THEN [v |-> 0, next |-> j + 1]
                      ELSE ParseDigits(txt, j, 0)
             IN  ParseOk(PyInt(IF neg THEN 0 - r.v ELSE r.v), r.next)

\* The characters of a string, from the one after its opening quote.
RECURSIVE ParseChars(_, _, _)
ParseChars(txt, i, acc) ==
    IF i > Len(txt) THEN ParseFail
    ELSE IF txt[i] = QUOTE THEN ParseOk(PyStr(acc), i + 1)
    ELSE IF txt[i] = BSLASH
         THEN IF i + 1 <= Len(txt) /\ txt[i + 1] \in {QUOTE, BSLASH}
              THEN ParseChars(txt, i + 2, Append(acc, txt[i + 1]))
              ELSE ParseFail
    ELSE ParseChars(txt, i + 1, Append(acc, txt[i]))

RECURSIVE ParseValue(_, _)
RECURSIVE ParseItems(_, _, _)
RECURSIVE ParseMembers(_, _, _)

\* After "[" or ",": a value, then "," or "]".
ParseItems(txt, i, acc) ==
    LET r == ParseValue(txt, SkipWs(txt, i))
    IN  IF ~r.ok THEN ParseFail
        ELSE LET j == SkipWs(txt, r.next)
             IN  IF j > Len(txt) THEN ParseFail
                 ELSE IF txt[j] = "]" THEN ParseOk(PyList(Append(acc, r.v)), j + 1)
                 ELSE IF txt[j] = "," THEN ParseItems(txt, j + 1, Append(acc, r.v))
                 ELSE ParseFail

\* After "{" or ",": "key" : value, then "," or "}".  A repeated key keeps
\* its last value.
ParseMembers(txt, i, acc) ==
    LET j == SkipWs(txt, i)
    IN  IF ~(j <= Len(txt) /\ txt[j] = QUOTE) THEN ParseFail
        ELSE LET k == ParseChars(txt, j + 1, <<>>)
             IN  IF ~k.ok THEN ParseFail
                 ELSE LET c == SkipWs(txt, k.next)
                      IN  IF ~(c <= Len(txt) /\ txt[c] = ":") THEN ParseFail
                          ELSE LET r == ParseValue(txt, SkipWs(txt, c + 1))
                               IN  IF ~r.ok THEN ParseFail
                                   ELSE LET e == SkipWs(txt, r.next)
                                            m == (k.v.s :> r.v) @@ acc
                                        IN  IF e > Len(txt) THEN ParseFail
                                            ELSE IF txt[e] = "}" THEN ParseOk(PyDict(m), e + 1)
                                            ELSE IF txt[e] = "," THEN ParseMembers(txt, e + 1, m)
                                            ELSE ParseFail

ParseValue(txt, i) ==
    IF i > Len(txt) THEN ParseFail
    ELSE IF txt[i] = QUOTE THEN ParseChars(txt, i + 1, <<>>)
    ELSE IF txt[i] = "{"
         THEN LET j == SkipWs(txt, i + 1)
              IN  IF j <= Len(txt) /\ txt[j] = "}" THEN ParseOk(EmptyDict, j + 1)
                  ELSE ParseMembers(txt, j, EmptyMap)
    ELSE IF txt[i] = "["
         THEN LET j == SkipWs(txt, i + 1)
              IN  IF j <= Len(txt) /\ txt[j] = "]" THEN ParseOk(PyList(<<>>), j + 1)
                  ELSE ParseItems(txt, j, <<>>)
    ELSE IF HasAt(txt, i, <<"n", "u", "l", "l">>) THEN ParseOk(PyNone, i + 4)
    ELSE IF HasAt(txt, i, <<"t", "r", "u", "e">>) THEN ParseOk(PyBool(TRUE), i + 4)
    ELSE IF HasAt(txt, i, <<"f", "a", "l", "s", "e">>) THEN ParseOk(PyBool(FALSE), i + 5)
    ELSE ParseInt(txt, i)

\* json.loads: a JSONDecodeError (ok = FALSE) for a malformed text or for
\* extra data after the value.
Loads(txt) ==
    LET r == ParseValue(txt, SkipWs(txt, 1))
    IN  IF r.ok /\ SkipWs(txt, r.next) = Len(txt) + 1 THEN [ok |-> TRUE, v |-> r.v]
        ELSE [ok |-> FALSE, v |-> PyNone]

(***************************************************************************)
(* The environment: the BOT_TOKEN variable, the concrete bot class, the    *)
(* key-value store and the store client.                                   *)
(***************************************************************************)
VARIABLES
    token,              \* os.getenv('BOT_TOKEN'): PyNone or PyStr(text)
    subclass,           \* the concrete class that is instantiated and run
    storeMode,          \* "up", "down" (every command fails) or "flaky"
    clientEncodesNone,  \* the installed store client encodes None as the text None
    store,              \* key text -> stored value, for the keys that exist
    pc,                 \* where the process is
    application,        \* self.application is built
    redis,              \* self._redis is created
    handlers,           \* the handlers registered on the application
    state,              \* self.state
    status,             \* self._status
    exc,                \* the exception in flight or propagated, or NoExc
    loopClosed,         \* loop.close() was called
    trace,              \* what run() has called and what was raised in it, in order
    issued              \* the calls made on the store client by this instance

vars == <<token, subclass, storeMode, clientEncodesNone, store, pc, application,
          redis, handlers, state, status, exc, loopClosed, trace, issued>>

env == <<token, subclass, storeMode, clientEncodesNone>>

MaxEchoed == 1
\* The most client calls after which a handler still makes one.
MaxIssued == 2

\* TokenA is the credential of the bot that is run; TokenB is the credential
\* of another bot that keeps its records in the same store.
TokenA == <<"7", ":", "A">>
TokenB == <<"8", ":", "B">>

\* "EchoBot" is examples/echo_bot.py.  The others stand for the subclasses a
\* user may write: "StartOnly" overrides start as EchoBot does and leaves
\* stop abstract, "Quiet" overrides both and never calls update_status,
\* "Base" overrides neither.
Subclasses == {"EchoBot", "StartOnly", "Quiet", "Base"}
OverridesStart(c)     == c \in {"EchoBot", "StartOnly", "Quiet"}
OverridesStop(c)      == c \in {"EchoBot", "Quiet"}
StartUpdatesStatus(c) == c \in {"EchoBot", "StartOnly"}
StopUpdatesStatus(c)  == c = "EchoBot"
\* Variant: no class assigns self.state after BotBase.__init__.
ReplacesNothing(c)    == FALSE
ReplacesState(c)      == c = "EchoBot"

NoExc == [kind |-> "none", desc |-> ""]
Raise(kind, desc) == [kind |-> kind, desc |-> desc]
\* The classes `except Exception` catches.
IsException(e) == e.kind \in {"Exception", "NotImplementedError"}

\* Application.builder().token(t).build() raises InvalidToken for a token
\* that is None or empty, and builds the application for any other.
ValidToken(tok) == tok.t = "str" /\ tok.s # <<>>

\* f"bot_state:{token}" and f"bot:{token}"; str(None) is "None".
TokenText(tok) == IF tok.t = "null" THEN <<"N", "o", "n", "e">> ELSE tok.s
StateKey(tok)  == <<"b", "o", "t", "_", "s", "t", "a", "t", "e", ":">> \o TokenText(tok)
\* Variant: the status record is stored under the state key.
StatusKeyAsStateKey(tok) == StateKey(tok)
StatusKey(tok) == <<"b", "o", "t", ":">> \o TokenText(tok)

StringValue(txt) == [kind |-> "string", text |-> txt]
HashValue(f)     == [kind |-> "hash", fields |-> f]

\* The outcomes a store command may have: TRUE when the store answers.
StoreOutcomes == IF storeMode = "up" THEN {TRUE}
                 ELSE IF storeMode = "down" THEN {FALSE}
                 ELSE BOOLEAN

(***************************************************************************)
(* The values the model draws from.                                        *)
(***************************************************************************)
KeyA == <<"a">>
KeyQ == <<"q", QUOTE, BSLASH>>
KeyEchoed == <<"m", "e", "s", "s", "a", "g", "e", "s", "_", "e", "c", "h", "o", "e", "d">>
KeyUsers  == <<"u", "s", "e", "r", "s">>

\* JSON-serializable mappings with string keys.
MapQuoted == PyDict((KeyA :> PyInt(-12)) @@ (KeyQ :> PyStr(KeyQ)))
Mappings ==
    { EmptyDict,
      PyDict(KeyA :> PyInt(1)),
      PyDict(KeyA :> PyInt(305)),
      MapQuoted,
      PyDict(<<>> :> PyStr(<<" ", ",", "}", ":">>)),
      PyDict(KeyA :> PyList(<<PyNone, PyBool(TRUE), PyStr(<<>>), PyList(<<>>)>>)),
      PyDict((KeyA :> PyInt(0)) @@ (KeyQ :> PyList(<<PyInt(-1), PyDict(KeyA :> PyNone)>>))),
      PyDict((KeyQ :> PyDict(KeyA :> PyBool(FALSE))) @@ (KeyA :> EmptyDict)) }

\* What a handler of a subclass may leave in self.state.
StateValues == Mappings \cup {PyDict(KeyA :> PySetOf({}))}

\* What the store may hold under the state key before the first start:
\* nothing, the empty text, malformed JSON, JSON that is not an object.
InitialBlobs ==
    { <<>>,
      <<"{">>,
      <<"{", QUOTE, "a", QUOTE, ":", "}">>,
      <<"0">>,
      <<"[", "1", "]">>,
      <<"n", "u", "l", "l">>,
      <<"{", QUOTE, "a", QUOTE, ":", " ", "1", "}">> }

FailureDescs == {"boom"}

(***************************************************************************)
(* The store client: get, set and hmset of one connection.  `ok` is        *)
(* whether the store answers this command; a command that fails changes    *)
(* nothing.                                                                *)
(***************************************************************************)
ClientCall(cmd, key) == [cmd |-> cmd, key |-> key]

\* self._redis.get(key): the text, nothing (None), or an error.
Get(st, key, ok) ==
    IF ~ok THEN [err |-> TRUE, present |-> FALSE, text |-> <<>>]
    ELSE IF key \notin DOMAIN st THEN [err |-> FALSE, present |-> FALSE, text |-> <<>>]
    ELSE IF st[key].kind # "string" THEN [err |-> TRUE, present |-> FALSE, text |-> <<>>]
    ELSE [err |-> FALSE, present |-> TRUE, text |-> st[key].text]

\* self._redis.set(key, text)
Set(st, key, txt, ok) ==
    IF ~ok THEN [err |-> TRUE, store |-> st]
    ELSE [err |-> FALSE, store |-> (key :> StringValue(txt)) @@ st]

\* How the client turns a field value into bytes.  A client that does not
\* encode None refuses the command (DataError); one that does sends str(None).
Encode(v, encNone) ==
    IF v.t = "str" THEN [err |-> FALSE, bytes |-> v.s]
    ELSE IF encNone THEN [err |-> FALSE, bytes |-> "None"]
    ELSE [err |-> TRUE, bytes |-> ""]

\* self._redis.hmset(key, mapping): sets every field of the mapping in the
\* hash at key, keeping the hash's other fields.
Hmset(st, key, mapping, ok, encNone) ==
    LET enc == [f \in DOMAIN mapping |-> Encode(mapping[f], encNone)]
        old == IF key \in DOMAIN st /\ st[key].kind = "hash" THEN st[key].fields ELSE <<>>
    IN  IF ~ok \/ (\E f \in DOMAIN mapping : enc[f].err)
           \/ (key \in DOMAIN st /\ st[key].kind # "hash")
        THEN [err |-> TRUE, store |-> st]
        ELSE [err |-> FALSE,
              store |-> (key :> HashValue([f \in DOMAIN mapping |-> enc[f].bytes] @@ old)) @@ st]

(***************************************************************************)
(* BotBase._load_state, _save_state and update_status.  Each returns       *)
(* `raised`, whether an exception leaves the method, and `calls`, the      *)
(* calls it made on the store client.                                      *)
(***************************************************************************)
\* The try block of _load_state: exc when get or json.loads raises; else
\* ret says whether the block returned a value.
LoadStateTry(st, tok, ok) ==
    LET g == Get(st, StateKey(tok), ok)
        r == Loads(g.text)
    IN  IF g.err THEN [exc |-> TRUE, ret |-> FALSE, v |-> PyNone]
        ELSE IF ~g.present \/ g.text = <<>> THEN [exc |-> FALSE, ret |-> FALSE, v |-> PyNone]
        ELSE IF ~r.ok THEN [exc |-> TRUE, ret |-> FALSE, v |-> PyNone]
        ELSE [exc |-> FALSE, ret |-> TRUE, v |-> r.v]

\* Variant: _load_state without its except clause.
LoadStateNoCatch(st, tok, ok) ==
    LET b == LoadStateTry(st, tok, ok)
    IN  [raised |-> b.exc,
         v      |-> IF b.ret THEN b.v ELSE EmptyDict,
         calls  |-> <<ClientCall("get", StateKey(tok))>>]

\* Variant: _load_state that drops the value it decoded (no return).
LoadStateNoReturn(st, tok, ok) ==
    [raised |-> FALSE, v |-> EmptyDict, calls |-> <<ClientCall("get", StateKey(tok))>>]

LoadState(st, tok, ok) ==
    LET b == LoadStateTry(st, tok, ok)
    IN  [raised |-> FALSE,
         v      |-> IF b.ret THEN b.v ELSE EmptyDict,
         calls  |-> <<ClientCall("get", StateKey(tok))>>]

\* Variant: _save_state without its except clause.
SaveStateNoCatch(st, tok, obj, ok) ==
    LET d == Dumps(obj)
        w == Set(st, StateKey(tok), d.text, ok)
    IN  [raised |-> ~d.ok \/ w.err,
         store  |-> IF d.ok /\ ~w.err THEN w.store ELSE st,
         calls  |-> IF d.ok THEN <<ClientCall("set", StateKey(tok))>> ELSE <<>>]

SaveState(st, tok, obj, ok) ==
    LET d == Dumps(obj)
        w == Set(st, StateKey(tok), d.text, ok)
    IN  [raised |-> FALSE,
         store  |-> IF d.ok /\ ~w.err THEN w.store ELSE st,
         calls  |-> IF d.ok THEN <<ClientCall("set", StateKey(tok))>> ELSE <<>>]

StatusData(s, e, w) == [status |-> PyStr(s), error |-> e, webhook_url |-> w]

\* Variant: update_status without its except clause.
UpdateStatusNoCatch(st, tok, cur, s, e, w, ok, encNone) ==
    LET h == Hmset(st, StatusKey(tok), StatusData(s, e, w), ok, encNone)
    IN  [raised |-> h.err,
         status |-> s,
         store  |-> IF h.err THEN st ELSE h.store,
         calls  |-> <<ClientCall("hmset", StatusKey(tok))>>]

\* Variant: update_status that sets self._status after the write, so that a
\* failed write leaves it as it was.
UpdateStatusAfterWrite(st, tok, cur, s, e, w, ok, encNone) ==
    LET h == Hmset(st, StatusKey(tok), StatusData(s, e, w), ok, encNone)
    IN  [raised |-> FALSE,
         status |-> IF h.err THEN cur ELSE s,
         store  |-> IF h.err THEN st ELSE h.store,
         calls  |-> <<ClientCall("hmset", StatusKey(tok))>>]

\* cur is self._status before the call.
UpdateStatus(st, tok, cur, s, e, w, ok, encNone) ==
    LET h == Hmset(st, StatusKey(tok), StatusData(s, e, w), ok, encNone)
    IN  [raised |-> FALSE,
         status |-> s,
         store  |-> IF h.err THEN st ELSE h.store,
         calls  |-> <<ClientCall("hmset", StatusKey(tok))>>]

(***************************************************************************)
(* The process: construction, run(), and a new start of the process.       *)
(***************************************************************************)
UserIds == {7}

\* The state EchoBot.__init__ installs, and what its handlers make of it.
EchoState(n, users) == PyDict((KeyEchoed :> PyInt(n)) @@ (KeyUsers :> PySetOf(users)))
EchoFresh == EchoState(0, {})

\* The handlers EchoBot.start registers.
Registered == {"start", "stats", "text"}

Call(op, args) == [op |-> op, args |-> args]
Raised(e) == Call("raise", <<e.kind, e.desc>>)

\* The other bot's records, which are in the store from the beginning.
OtherRecords ==
    (StateKey(PyStr(TokenB)) :> StringValue(<<"{", "}">>))
    @@ (StatusKey(PyStr(TokenB)) :>
          HashValue([status |-> "running", error |-> "None", webhook_url |-> "None"]))

Init ==
    /\ token \in {PyNone, PyStr(<<>>), PyStr(TokenA)}
    /\ subclass \in Subclasses
    /\ storeMode \in {"up", "down", "flaky"}
    /\ clientEncodesNone \in BOOLEAN
    /\ store \in {OtherRecords}
                 \cup {(StateKey(token) :> StringValue(b)) @@ OtherRecords : b \in InitialBlobs}
    /\ pc = "new"
    /\ application = FALSE
    /\ redis = FALSE
    /\ handlers = {}
    /\ state = EmptyDict
    /\ status = "starting"
    /\ exc = NoExc
    /\ loopClosed = FALSE
    /\ trace = <<>>
    /\ issued = <<>>

\* Variant: _setup creates the store handle and loads the state before it
\* builds the application.
ConstructStoreFirst ==
    /\ pc = "new"
    /\ \E ok \in StoreOutcomes :
         LET r == LoadState(store, token, ok)
         IN  /\ redis' = TRUE
             /\ issued' = issued \o r.calls
             /\ application' = ValidToken(token)
             /\ IF ~ValidToken(token)
                THEN /\ pc' = "ctor_failed"
                     /\ exc' = Raise("InvalidToken", "")
                     /\ state' = r.v
                ELSE /\ pc' = "constructed"
                     /\ exc' = NoExc
                     /\ state' = IF ReplacesState(subclass) THEN EchoFresh ELSE r.v
    /\ UNCHANGED <<env, store, handlers, status, loopClosed, trace>>

\* BotBase.__init__ and _setup, then the rest of the subclass's __init__.
\* Building the application fails for an absent or empty token, before the
\* store handle is created.
Construct ==
    /\ pc = "new"
    /\ IF ~ValidToken(token)
       THEN /\ pc' = "ctor_failed"
            /\ exc' = Raise("InvalidToken", "")
            /\ UNCHANGED <<application, redis, state, issued>>
       ELSE \E ok \in StoreOutcomes :
              LET r == LoadState(store, token, ok)
              IN  /\ application' = TRUE
                  /\ redis' = TRUE
                  /\ issued' = issued \o r.calls
                  /\ IF r.raised
                     THEN /\ pc' = "ctor_failed"
                          /\ exc' = Raise("Exception", "load")
                          /\ state' = state
                     ELSE /\ pc' = "constructed"
                          /\ exc' = NoExc
                          /\ state' = IF ReplacesState(subclass) THEN EchoFresh ELSE r.v
    /\ UNCHANGED <<env, store, handlers, status, loopClosed, trace>>

\* run() up to the end of loop.run_until_complete(self.start()).  start
\* completes, fails, is interrupted (before its first or after its last
\* statement) or ends the process.
RunStart ==
    /\ pc = "constructed"
    /\ IF ~OverridesStart(subclass)
       THEN /\ exc' = Raise("NotImplementedError", "")
            /\ pc' = "failed"
            /\ trace' = trace \o <<Call("start", <<>>), Raised(exc')>>
            /\ UNCHANGED <<handlers, status, store, issued>>
       ELSE \/ \E ok \in StoreOutcomes, interrupt \in BOOLEAN :
                 LET r == UpdateStatus(store, token, status, "running", PyNone, PyNone, ok,
                                       clientEncodesNone)
                     u == StartUpdatesStatus(subclass)
                 IN  /\ handlers' = Registered
                     /\ status' = IF u THEN r.status ELSE status
                     /\ store' = IF u THEN r.store ELSE store
                     /\ issued' = IF u THEN issued \o r.calls ELSE issued
                     /\ exc' = IF u /\ r.raised THEN Raise("Exception", "status")
                               ELSE IF interrupt THEN Raise("KeyboardInterrupt", "")
                               ELSE exc
                     /\ pc' = IF u /\ r.raised THEN "failed"
                              ELSE IF interrupt THEN "interrupted"
                              ELSE "blocked"
                     /\ trace' = trace \o <<Call("start", <<>>)>>
                                 \o (IF exc' = exc THEN <<>> ELSE <<Raised(exc')>>)
            \/ \E d \in FailureDescs :
                 /\ handlers' = Registered
                 /\ exc' = Raise("Exception", d)
                 /\ pc' = "failed"
                 /\ trace' = trace \o <<Call("start", <<>>), Raised(exc')>>
                 /\ UNCHANGED <<status, store, issued>>
            \/ /\ exc' = Raise("KeyboardInterrupt", "")
               /\ pc' = "interrupted"
               /\ trace' = trace \o <<Call("start", <<>>), Raised(exc')>>
               /\ UNCHANGED <<handlers, status, store, issued>>
            \/ /\ handlers' = Registered
               /\ exc' = Raise("SystemExit", "")
               /\ pc' = "finally"
               /\ trace' = trace \o <<Call("start", <<>>), Raised(exc')>>
               /\ UNCHANGED <<status, store, issued>>
    /\ UNCHANGED <<env, application, redis, state, loopClosed>>

\* While run() is blocked in loop.run_forever(): the handlers of the subclass.
HandleMessage ==
    /\ pc = "blocked"
    /\ subclass = "EchoBot"
    /\ state.map[KeyEchoed].i < MaxEchoed
    /\ \E u \in UserIds :
         state' = EchoState(state.map[KeyEchoed].i + 1, state.map[KeyUsers].elems \cup {u})
    /\ UNCHANGED <<env, store, pc, application, redis, handlers, status, exc, loopClosed,
                   trace, issued>>

CmdStart ==
    /\ pc = "blocked"
    /\ subclass = "EchoBot"
    /\ \E u \in UserIds :
         /\ u \notin state.map[KeyUsers].elems
         /\ state' = EchoState(state.map[KeyEchoed].i, state.map[KeyUsers].elems \cup {u})
    /\ UNCHANGED <<env, store, pc, application, redis, handlers, status, exc, loopClosed,
                   trace, issued>>

\* A handler of another subclass: it may leave any value in self.state, and
\* it may call update_status.
HandlerSetsState ==
    /\ pc = "blocked"
    /\ subclass \in {"StartOnly", "Quiet"}
    /\ \E v \in StateValues : v # state /\ state' = v
    /\ UNCHANGED <<env, store, pc, application, redis, handlers, status, exc, loopClosed,
                   trace, issued>>

HandlerUpdatesStatus ==
    /\ pc = "blocked"
    /\ subclass \in {"StartOnly", "Quiet"}
    /\ Len(issued) <= MaxIssued
    /\ \E s \in {"running", "error"}, e \in {PyNone, PyStr("boom")},
          w \in {PyNone, PyStr("https://hook")}, ok \in StoreOutcomes :
         LET r == UpdateStatus(store, token, status, s, e, w, ok, clientEncodesNone)
         IN  /\ status' = r.status
             /\ store' = r.store
             /\ issued' = issued \o r.calls
             /\ pc' = IF r.raised THEN "failed" ELSE pc
             /\ exc' = IF r.raised THEN Raise("Exception", "status") ELSE exc
             /\ trace' = IF r.raised THEN Append(trace, Raised(exc')) ELSE trace
    /\ UNCHANGED <<env, application, redis, handlers, state, loopClosed>>

\* How loop.run_forever() ends: interrupted, by a failure, by an exit of the
\* process, or stopped.
LoopInterrupt ==
    /\ pc = "blocked"
    /\ exc' = Raise("KeyboardInterrupt", "")
    /\ pc' = "interrupted"
    /\ trace' = Append(trace, Raised(exc'))
    /\ UNCHANGED <<env, store, application, redis, handlers, state, status, loopClosed, issued>>

LoopFail ==
    /\ pc = "blocked"
    /\ \E d \in FailureDescs : exc' = Raise("Exception", d)
    /\ pc' = "failed"
    /\ trace' = Append(trace, Raised(exc'))
    /\ UNCHANGED <<env, store, application, redis, handlers, state, status, loopClosed, issued>>

LoopExit ==
    /\ pc = "blocked"
    /\ \/ /\ exc' = Raise("SystemExit", "")
          /\ trace' = Append(trace, Raised(exc'))
       \/ /\ exc' = NoExc
          /\ trace' = trace
    /\ pc' = "finally"
    /\ UNCHANGED <<env, store, application, redis, handlers, state, status, loopClosed, issued>>

\* except KeyboardInterrupt: self._save_state()
InterruptSave ==
    /\ pc = "interrupted"
    /\ \E ok \in StoreOutcomes :
         LET r == SaveState(store, token, state, ok)
         IN  /\ store' = r.store
             /\ issued' = issued \o r.calls
             /\ pc' = IF r.raised THEN "finally" ELSE "stopping"
             /\ exc' = IF r.raised THEN Raise("Exception", "save") ELSE exc
             /\ trace' = trace \o <<Call("_save_state", <<>>)>>
                         \o (IF r.raised THEN <<Raised(exc')>> ELSE <<>>)
    /\ UNCHANGED <<env, application, redis, handlers, state, status, loopClosed>>

\* Variant: the stop of the interruption path is inside the try block, so
\* that its failure is handled by the except Exception clause.
InterruptStopInsideTry ==
    /\ pc = "stopping"
    /\ IF ~OverridesStop(subclass)
       THEN /\ exc' = Raise("NotImplementedError", "")
            /\ pc' = "failed"
            /\ trace' = trace \o <<Call("stop", <<>>), Raised(exc')>>
            /\ UNCHANGED <<status, store, issued>>
       ELSE \/ \E d \in FailureDescs :
                 /\ exc' = Raise("Exception", d)
                 /\ pc' = "failed"
                 /\ trace' = trace \o <<Call("stop", <<>>), Raised(exc')>>
                 /\ UNCHANGED <<status, store, issued>>
            \/ \E ok \in StoreOutcomes :
                 LET r == UpdateStatus(store, token, status, "stopped", PyNone, PyNone, ok,
                                       clientEncodesNone)
                     u == StopUpdatesStatus(subclass)
                 IN  /\ status' = IF u THEN r.status ELSE status
                     /\ store' = IF u THEN r.store ELSE store
                     /\ issued' = IF u THEN issued \o r.calls ELSE issued
                     /\ exc' = IF u /\ r.raised THEN Raise("Exception", "status") ELSE NoExc
                     /\ pc' = "finally"
                     /\ trace' = trace \o <<Call("stop", <<>>)>>
                                 \o (IF exc' = NoExc THEN <<>> ELSE <<Raised(exc')>>)
    /\ UNCHANGED <<env, application, redis, handlers, state, loopClosed>>

\* except KeyboardInterrupt: loop.run_until_complete(self.stop())
InterruptStop ==
    /\ pc = "stopping"
    /\ pc' = "finally"
    /\ IF ~OverridesStop(subclass)
       THEN /\ exc' = Raise("NotImplementedError", "")
            /\ trace' = trace \o <<Call("stop", <<>>), Raised(exc')>>
            /\ UNCHANGED <<status, store, issued>>
       ELSE \/ \E d \in FailureDescs :
                 /\ exc' = Raise("Exception", d)
                 /\ trace' = trace \o <<Call("stop", <<>>), Raised(exc')>>
                 /\ UNCHANGED <<status, store, issued>>
            \/ \E ok \in StoreOutcomes :
                 LET r == UpdateStatus(store, token, status, "stopped", PyNone, PyNone, ok,
                                       clientEncodesNone)
                     u == StopUpdatesStatus(subclass)
                 IN  /\ status' = IF u THEN r.status ELSE status
                     /\ store' = IF u THEN r.store ELSE store
                     /\ issued' = IF u THEN issued \o r.calls ELSE issued
                     /\ exc' = IF u /\ r.raised THEN Raise("Exception", "status") ELSE NoExc
                     /\ trace' = trace \o <<Call("stop", <<>>)>>
                                 \o (IF exc' = NoExc THEN <<>> ELSE <<Raised(exc')>>)
    /\ UNCHANGED <<env, application, redis, handlers, state, loopClosed>>

\* Variant: the except clause re-raises after recording the error.
ErrorPathReraises ==
    /\ pc = "failed"
    /\ pc' = "finally"
    /\ \E ok \in StoreOutcomes :
         LET r == UpdateStatus(store, token, status, "error", PyStr(exc.desc), PyNone, ok,
                               clientEncodesNone)
         IN  /\ status' = r.status
             /\ store' = r.store
             /\ issued' = issued \o r.calls
             /\ exc' = exc
             /\ trace' = Append(trace,
                                Call("update_status", <<"error", PyStr(exc.desc), PyNone>>))
    /\ UNCHANGED <<env, application, redis, handlers, state, loopClosed>>

\* Variant: the except clause saves the state before recording the error.
ErrorPathSaves ==
    /\ pc = "failed"
    /\ pc' = "finally"
    /\ \E ok \in StoreOutcomes :
         LET sv == SaveState(store, token, state, ok)
             r == UpdateStatus(sv.store, token, status, "error", PyStr(exc.desc), PyNone, ok,
                               clientEncodesNone)
         IN  /\ status' = r.status
             /\ store' = r.store
             /\ issued' = issued \o sv.calls \o r.calls
             /\ exc' = IF r.raised THEN Raise("Exception", "status") ELSE NoExc
             /\ trace' = trace
                         \o <<Call("update_status", <<"error", PyStr(exc.desc), PyNone>>)>>
                         \o (IF r.raised THEN <<Raised(exc')>> ELSE <<>>)
    /\ UNCHANGED <<env, application, redis, handlers, state, loopClosed>>

\* Variant: the except clause also calls stop, to clean up.
ErrorPathStops ==
    /\ pc = "failed"
    /\ pc' = "finally"
    /\ \E ok \in StoreOutcomes :
         LET r == UpdateStatus(store, token, status, "error", PyStr(exc.desc), PyNone, ok,
                               clientEncodesNone)
         IN  /\ status' = r.status
             /\ store' = r.store
             /\ issued' = issued \o r.calls
             /\ exc' = IF OverridesStop(subclass) THEN NoExc
                       ELSE Raise("NotImplementedError", "")
             /\ trace' = trace
                         \o <<Call("update_status", <<"error", PyStr(exc.desc), PyNone>>),
                              Call("stop", <<>>)>>
                         \o (IF exc' = NoExc THEN <<>> ELSE <<Raised(exc')>>)
    /\ UNCHANGED <<env, application, redis, handlers, state, loopClosed>>

\* except Exception as e: self.update_status('error', str(e))
ErrorPath ==
    /\ pc = "failed"
    /\ pc' = "finally"
    /\ \E ok \in StoreOutcomes :
         LET r == UpdateStatus(store, token, status, "error", PyStr(exc.desc), PyNone, ok,
                               clientEncodesNone)
         IN  /\ status' = r.status
             /\ store' = r.store
             /\ issued' = issued \o r.calls
             /\ exc' = IF r.raised THEN Raise("Exception", "status") ELSE NoExc
             /\ trace' = trace
                         \o <<Call("update_status", <<"error", PyStr(exc.desc), PyNone>>)>>
                         \o (IF r.raised THEN <<Raised(exc')>> ELSE <<>>)
    /\ UNCHANGED <<env, application, redis, handlers, state, loopClosed>>

\* finally: loop.close(); then run() returns or the exception leaves it.
Finally ==
    /\ pc = "finally"
    /\ loopClosed' = TRUE
    /\ trace' = Append(trace, Call("close", <<>>))
    /\ pc' = IF exc = NoExc THEN "returned" ELSE "raised"
    /\ UNCHANGED <<env, store, application, redis, handlers, state, status, exc, issued>>

\* The process has ended and is started again (bot = EchoBot(); bot.run()):
\* a new instance, the same environment, the store as it was left.
Restart ==
    /\ pc \in {"returned", "raised", "ctor_failed"}
    /\ pc' = "new"
    /\ application' = FALSE
    /\ redis' = FALSE
    /\ handlers' = {}
    /\ state' = EmptyDict
    /\ status' = "starting"
    /\ exc' = NoExc
    /\ loopClosed' = FALSE
    /\ trace' = <<>>
    /\ issued' = <<>>
    /\ UNCHANGED <<env, store>>

Next ==
    \/ Construct
    \/ RunStart
    \/ HandleMessage
    \/ CmdStart
    \/ HandlerSetsState
    \/ HandlerUpdatesStatus
    \/ LoopInterrupt
    \/ LoopFail
    \/ LoopExit
    \/ InterruptSave
    \/ InterruptStop
    \/ ErrorPath
    \/ Finally
    \/ Restart

Spec == Init /\ [][Next]_vars

(***************************************************************************)
(* Properties.                                                             *)
(***************************************************************************)
InTrace(c) == \E i \in 1..Len(trace) : trace[i] = c
CountOp(op) == Cardinality({i \in 1..Len(trace) : trace[i].op = op})
KbdInterrupt == Raise("KeyboardInterrupt", "")
RunEnded == pc \in {"finally", "returned", "raised"}

\* Where in the trace the exception that ended the try block of run() is.
FirstRaise == CHOOSE i \in 1..Len(trace) :
                 trace[i].op = "raise" /\ \A j \in 1..(i - 1) : trace[j].op # "raise"
HasRaise == \E i \in 1..Len(trace) : trace[i].op = "raise"
Interrupted == HasRaise /\ trace[FirstRaise] = Raised(KbdInterrupt)
Failed == HasRaise /\ trace[FirstRaise].args[1] \in {"Exception", "NotImplementedError"}

\* C1: when a KeyboardInterrupt ends start or the blocked loop, the first
\* thing run() does is call _save_state, it calls stop right after it and
\* only once, and it has called stop by the time it reaches its finally
\* clause, whatever became of the save.
C1_SaveThenStopOnce ==
    Interrupted =>
        /\ Len(trace) > FirstRaise => trace[FirstRaise + 1] = Call("_save_state", <<>>)
        /\ Len(trace) > FirstRaise + 1 => trace[FirstRaise + 2] = Call("stop", <<>>)
        /\ \A i \in 1..Len(trace) : trace[i].op = "stop" => i = FirstRaise + 2
        /\ CountOp("_save_state") <= 1
        /\ RunEnded => CountOp("stop") = 1

\* An interrupted run whose save failed twice over (the store is down and the
\* state holds a set) has called stop and returned.
C1_Witness ==
    /\ Interrupted
    /\ pc = "returned"
    /\ storeMode = "down"
    /\ ~Serializable(state)
    /\ trace[FirstRaise + 2] = Call("stop", <<>>)

\* C2, as claimed: whenever start has completed and run() goes on to block in
\* the event loop, the status is "running", whatever the subclass.
C2_RunSetsRunning ==
    [][(pc = "constructed" /\ pc' = "blocked") => status' = "running"]_vars

\* C2, amended: run() makes no status transition of its own between start
\* and the blocking wait.  When it blocks after start completed, the status
\* of the instance is "running" exactly when the subclass's start called
\* update_status("running"), as EchoBot.start does; otherwise it is still
\* "starting", the store is as it was and no call was made on the client.
C2_StatusIsSubclassDuty ==
    [][(pc = "constructed" /\ pc' = "blocked") =>
          IF StartUpdatesStatus(subclass)
          THEN status' = "running"
          ELSE status' = "starting" /\ store' = store /\ issued' = issued]_vars

\* EchoBot blocked in the loop with status "running", the store being down.
C2_Witness ==
    /\ pc = "blocked"
    /\ subclass = "EchoBot"
    /\ storeMode = "down"
    /\ status = "running"
    /\ trace = <<Call("start", <<>>)>>

\* C3: when an Exception ends start or the blocked loop, run() calls
\* update_status("error", str(e)) once and next, calls start no second time,
\* calls neither _save_state nor stop, and returns: no exception leaves it.
C3_ErrorPathOnce ==
    Failed =>
        LET d == trace[FirstRaise].args[2]
        IN  /\ CountOp("start") = 1
            /\ CountOp("stop") = 0
            /\ CountOp("_save_state") = 0
            /\ CountOp("update_status") <= 1
            /\ Len(trace) > FirstRaise =>
                 trace[FirstRaise + 1] = Call("update_status", <<"error", PyStr(d), PyNone>>)
            /\ pc # "raised"
            /\ RunEnded => /\ CountOp("update_status") = 1
                           /\ exc = NoExc
                           /\ status = "error"
                           /\ issued[Len(issued)] = ClientCall("hmset", StatusKey(token))

\* A run that failed with "boom", made its one status call and returned.
C3_Witness ==
    /\ pc = "returned"
    /\ Failed
    /\ handlers = Registered
    /\ trace = <<Call("start", <<>>), Raised(Raise("Exception", "boom")),
                 Call("update_status", <<"error", PyStr("boom"), PyNone>>),
                 Call("close", <<>>)>>

\* What the store holds under the state key of this bot.
HasBlob == StateKey(token) \in DOMAIN store /\ store[StateKey(token)].kind = "string"
Blob == store[StateKey(token)].text

\* C4: when the store holds under the state key what _save_state wrote for
\* a mapping M, and answers, the _load_state of the next instance returns M.
\* (The state of an instance whose class does not replace it in __init__ is
\* what _load_state returned.)
C4_SaveLoadRoundTrip ==
    (pc = "constructed" /\ ~ReplacesState(subclass) /\ storeMode = "up" /\ HasBlob) =>
        \A M \in Mappings : Blob = Dumps(M).text => state = M

\* An instance that loaded a mapping with escaped characters in a key and a
\* value, which only a save of an earlier instance can have put in the store.
C4_Witness ==
    /\ pc = "constructed"
    /\ subclass = "Quiet"
    /\ storeMode = "up"
    /\ HasBlob
    /\ Blob = Dumps(MapQuoted).text
    /\ state = MapQuoted

\* C5: _load_state raises nothing (construction with a token never fails),
\* and it returns {} when the state key is absent, when what is stored is not
\* well-formed JSON and when the store does not answer the get.
C5_LoadDefaultsToEmpty ==
    /\ ValidToken(token) => pc # "ctor_failed"
    /\ (pc = "constructed" /\ ~ReplacesState(subclass)
          /\ (~HasBlob \/ ~Loads(Blob).ok \/ storeMode = "down")) => state = EmptyDict

\* An instance constructed over a malformed blob, with the empty state.
C5_Witness ==
    /\ pc = "constructed"
    /\ subclass = "StartOnly"
    /\ HasBlob
    /\ Blob = <<"{", QUOTE, "a", QUOTE, ":", "}">>
    /\ state = EmptyDict
    /\ storeMode = "up"

\* The arguments update_status is tried with.
StatusArgs == {"running", "stopped", "error"}
ErrorArgs == {PyNone, PyStr("boom")}
WebhookArgs == {PyNone, PyStr("https://hook")}

\* C6: no exception ever leaves _save_state or update_status.  Where run()
\* calls _save_state, and wherever update_status can be called, whatever the
\* arguments are and whether or not the store answers, the method makes at
\* most one call on the client, and when that call (or json.dumps) fails the
\* store is left exactly as it was.
C6_WritesAreBestEffort ==
    /\ exc.desc \notin {"save", "status"}
    /\ pc = "interrupted" =>
         \A ok \in BOOLEAN :
           LET r == SaveState(store, token, state, ok)
               d == Dumps(state)
               failed == ~d.ok \/ Set(store, StateKey(token), d.text, ok).err
           IN  ~r.raised /\ Len(r.calls) <= 1 /\ (failed => r.store = store)
    /\ pc \in {"constructed", "blocked", "stopping", "failed"} =>
         \A ok \in BOOLEAN, s \in StatusArgs, e \in ErrorArgs, w \in WebhookArgs :
           LET r == UpdateStatus(store, token, status, s, e, w, ok, clientEncodesNone)
               failed == Hmset(store, StatusKey(token), StatusData(s, e, w), ok,
                               clientEncodesNone).err
           IN  ~r.raised /\ Len(r.calls) <= 1 /\ (failed => r.store = store)

\* EchoBot after the save of an interrupted run: its state holds a set, the
\* save failed, run() goes on to stop, and the state key is still absent.
C6_Witness ==
    /\ pc = "stopping"
    /\ subclass = "EchoBot"
    /\ storeMode = "up"
    /\ ~Serializable(state)
    /\ ~HasBlob
    /\ exc = KbdInterrupt

\* C7: with the store down for the whole life of the instance, construction
\* succeeds, no exception in run() comes from the store, and start, unless it
\* fails or is interrupted for another reason, completes with the handlers
\* registered and run() blocks in the event loop.
C7_StoreDownIsHarmless ==
    /\ [](storeMode = "down" =>
            /\ ValidToken(token) => pc # "ctor_failed"
            /\ exc.desc \notin {"load", "save", "status"}
            /\ pc = "blocked" => application /\ redis /\ handlers = Registered)
    /\ [][(storeMode = "down" /\ pc = "constructed" /\ OverridesStart(subclass) /\ exc' = exc)
            => (pc' = "blocked" /\ handlers' = Registered)]_vars

\* EchoBot blocked in the loop, handlers registered, over a store that is
\* down and has answered none of its two calls.
C7_Witness ==
    /\ storeMode = "down"
    /\ subclass = "EchoBot"
    /\ pc = "blocked"
    /\ handlers = Registered
    /\ Len(issued) = 2
    /\ StatusKey(token) \notin DOMAIN store

\* The status record of this bot as a reader of the store finds it.
HasRecord == StatusKey(token) \in DOMAIN store /\ store[StatusKey(token)].kind = "hash"
Record == store[StatusKey(token)].fields
\* A field reads as None when it is missing or holds the text None.
ReadsNone(f) == f \notin DOMAIN Record \/ Record[f] = "None"

\* C8: after update_status("running"), called by EchoBot.start with no
\* error and no webhook, with the store answering, the stored record reads
\* status = running and error = None.
C8_RunningIsStored ==
    (pc = "blocked" /\ subclass = "EchoBot" /\ storeMode = "up") =>
        (HasRecord /\ Record["status"] = "running" /\ ReadsNone("error"))

\* C9: after update_status("error", error = "boom"), called by run() for a
\* failure described as "boom", with the store answering, the stored record
\* is status = error, error = "boom", webhook_url = None.
C9_ErrorIsStored ==
    (pc = "returned" /\ storeMode = "up" /\ Failed /\ trace[FirstRaise].args[2] = "boom") =>
        (HasRecord /\ Record["status"] = "error" /\ Record["error"] = "boom"
           /\ ReadsNone("webhook_url"))

NotImplemented == Raise("NotImplementedError", "")

\* C10: for a class that overrides start and not stop, construction succeeds
\* and run() blocks with the handlers registered; NotImplementedError is
\* raised only by the stop that follows _save_state in an interrupted run,
\* and it is raised there; a failed run calls no stop.
C10_StopFailsOnlyWhenInvoked ==
    subclass = "StartOnly" =>
        /\ ValidToken(token) => pc # "ctor_failed"
        /\ pc = "blocked" => handlers = Registered /\ exc = NoExc
        /\ \A i \in 1..Len(trace) :
             trace[i] = Raised(NotImplemented) =>
                /\ Interrupted
                /\ i = FirstRaise + 3
                /\ trace[i - 2] = Call("_save_state", <<>>)
                /\ trace[i - 1] = Call("stop", <<>>)
        /\ exc = NotImplemented => InTrace(Raised(NotImplemented))
        /\ Failed => CountOp("stop") = 0
        /\ (Interrupted /\ RunEnded) => exc = NotImplemented

\* An interrupted run of such a class, left by the NotImplementedError of stop.
C10_Witness ==
    /\ subclass = "StartOnly"
    /\ pc = "raised"
    /\ exc = NotImplemented
    /\ trace = <<Call("start", <<>>), Raised(KbdInterrupt), Call("_save_state", <<>>),
                 Call("stop", <<>>), Raised(NotImplemented), Call("close", <<>>)>>

\* The keys built from an absent credential.
NoneKeys == {StateKey(PyNone), StatusKey(PyNone)}

\* C11: with the credential absent (or empty, for which the client cannot be
\* built) construction fails: InvalidToken leaves the constructor, no
\* instance is ever constructed, and at that point no application and no
\* store handle exist and no call was made on the store client.  No call is
\* ever made under a key built from an absent credential.
C11_FailsFastWithoutCredential ==
    /\ ~ValidToken(token) => pc \in {"new", "ctor_failed"}
    /\ pc = "ctor_failed" =>
         /\ ~ValidToken(token)
         /\ exc = Raise("InvalidToken", "")
         /\ ~application
         /\ ~redis
         /\ issued = <<>>
         /\ state = EmptyDict
    /\ \A i \in 1..Len(issued) : issued[i].key \notin NoneKeys

\* The constructor has failed for the absent credential.
C11_Witness ==
    /\ token = PyNone
    /\ pc = "ctor_failed"
    /\ exc.kind = "InvalidToken"

\* The set calls the instance has made on the store client.
SetCalls == {i \in 1..Len(issued) : issued[i].cmd = "set"}

\* C12: the instance makes at most one set call on the store client in its
\* life (construction and one run()), under its state key, and only in a run
\* that a KeyboardInterrupt ended and that went on to call _save_state: none
\* before or during start, none while the loop is blocked, none in a run
\* that an Exception ended.  What is stored under the state key changes in
\* no step but the _save_state of the interrupted run.
C12_SaveOnlyOnInterrupt ==
    /\ [](/\ Cardinality(SetCalls) <= 1
          /\ \A i \in SetCalls : issued[i].key = StateKey(token)
          /\ SetCalls # {} => Interrupted /\ CountOp("_save_state") = 1
          /\ Failed => SetCalls = {}
          /\ pc \in {"new", "ctor_failed", "constructed", "blocked", "interrupted", "failed"}
               => SetCalls = {})
    /\ [][(HasBlob' # HasBlob \/ (HasBlob /\ Blob' # Blob)) => pc = "interrupted"]_vars

\* An interrupted run has returned after its one save, which stored the dump
\* of the state.
C12_Witness ==
    /\ pc = "returned"
    /\ Interrupted
    /\ Cardinality(SetCalls) = 1
    /\ state = MapQuoted
    /\ HasBlob
    /\ Blob = Dumps(MapQuoted).text

\* Credentials to compare the keys of, some shaped like a part of a key.
Credentials ==
    {PyNone, PyStr(<<>>), PyStr(TokenA), PyStr(TokenB),
     PyStr(<<"s", "t", "a", "t", "e", ":">> \o TokenA),
     PyStr(<<"_", "s", "t", "a", "t", "e", ":">> \o TokenA),
     PyStr(<<":">> \o TokenA)}

\* The store st2 is the store st1 but for what is under key k.
SameBut(st1, st2, k) ==
    \A j \in (DOMAIN st1 \cup DOMAIN st2) \ {k} :
        j \in DOMAIN st1 /\ j \in DOMAIN st2 /\ st1[j] = st2[j]

\* C13: no state key equals a status key, whatever the two credentials.
\* Construction (_load_state) leaves the store as it is; the _save_state of
\* run() changes at most what is under the state key of this bot;
\* update_status, wherever it is called, changes at most what is under the
\* status key of this bot.
C13_EachTouchesItsOwnKey ==
    /\ [](\A t1, t2 \in Credentials : StateKey(t1) # StatusKey(t2))
    /\ [][/\ pc = "new" => store' = store
          /\ pc = "interrupted" => SameBut(store, store', StateKey(token))
          /\ pc \in {"constructed", "blocked", "stopping", "failed"}
               => SameBut(store, store', StatusKey(token))
          /\ pc \in {"finally", "returned", "raised", "ctor_failed"} => store' = store]_vars

\* The bot has written both its records, next to the other bot's, which are
\* as they were.
C13_Witness ==
    /\ pc = "stopping"
    /\ subclass = "StartOnly"
    /\ HasBlob
    /\ Blob = Dumps(MapQuoted).text
    /\ CountOp("_save_state") = 1
    /\ StatusKey(token) \in DOMAIN store
    /\ store[StatusKey(token)].fields["status"] = "running"
    /\ \A k \in DOMAIN OtherRecords : store[k] = OtherRecords[k]

\* C14: the state of a constructed instance is a mapping, whatever the store
\* holds under the state key: nothing, the empty text, malformed JSON, or
\* well-formed JSON that is a number, a list or null.
C14_StateIsAMapping ==
    pc = "constructed" => state.t = "dict"

\* The stop of the interruption path has raised: a raise follows its call.
StopRaised ==
    /\ Interrupted
    /\ \E i \in 1..(Len(trace) - 1) : trace[i].op = "stop" /\ trace[i + 1].op = "raise"

\* The status record of this bot is the same in the two stores.
SameRecord(st1, st2) ==
    /\ StatusKey(token) \in DOMAIN st1 <=> StatusKey(token) \in DOMAIN st2
    /\ StatusKey(token) \in DOMAIN st1 => st1[StatusKey(token)] = st2[StatusKey(token)]

\* C15: when the stop that run() calls after a KeyboardInterrupt raises
\* (NotImplementedError for a class that does not override it), run() makes
\* no update_status call and no hmset call for it, the exception of stop
\* leaves run(), and the loop is closed by then.  From the interrupt to the
\* end of such a run the status and the stored status record stay as they
\* were.
C15_StopFailurePropagates ==
    /\ [](StopRaised =>
            /\ pc \in {"finally", "raised"}
            /\ exc.kind \in {"Exception", "NotImplementedError"}
            /\ ~OverridesStop(subclass) => exc = NotImplemented
            /\ trace[Len(trace)].op \in {"raise", "close"}
            /\ \A i \in 1..Len(trace) :
                 (i > FirstRaise /\ trace[i].op = "update_status") => FALSE
            /\ pc = "raised" => loopClosed)
    /\ [][(pc = "interrupted" \/ (pc = "stopping" /\ exc' # NoExc) \/ (pc = "finally" /\ StopRaised))
            => /\ status' = status
               /\ SameRecord(store, store')
               /\ \A i \in (Len(issued) + 1)..Len(issued') : issued'[i].cmd # "hmset"]_vars

\* EchoBot's stop has failed with "boom" in an interrupted run: the exception
\* has left run(), the loop is closed and the status is still "running".
C15_Witness ==
    /\ pc = "raised"
    /\ subclass = "EchoBot"
    /\ StopRaised
    /\ exc = Raise("Exception", "boom")
    /\ loopClosed
    /\ status = "running"
    /\ CountOp("update_status") = 0

\* C16: the state of a constructed EchoBot is the fresh one (no message
\* echoed, no user), whatever the store holds under its state key and
\* whether or not the store answers: what _load_state returned is replaced.
C16_EchoBotStartsFresh ==
    (pc = "constructed" /\ subclass = "EchoBot") => state = EchoFresh

\* An EchoBot constructed over a store that answers and holds a mapping
\* under its state key: the get was made, the state is the fresh one.
C16_Witness ==
    /\ pc = "constructed"
    /\ subclass = "EchoBot"
    /\ storeMode = "up"
    /\ HasBlob
    /\ Loads(Blob).ok
    /\ Loads(Blob).v.t = "dict"
    /\ Loads(Blob).v # EchoFresh
    /\ issued = <<ClientCall("get", StateKey(token))>>
    /\ state = EchoFresh

====
